---- MODULE Spec2Model ----
(***************************************************************************)
(* Patch / rollback orchestration of gograpple (src/patch.go).             *)
(*                                                                         *)
(* The cluster (one Deployment with its revision history, the configmaps   *)
(* of its namespace, the change-cause annotation) is the durable state.    *)
(* Every external command issued by Patch, Rollback and rollback is one    *)
(* step of an invocation; each command may fail, in which case it has no   *)
(* effect and the code's error path is taken.                              *)
(* An argument of Patch is drawn at the statement that first reads it      *)
(* (container at line 53, platform at 58-62, repo at 114-124).             *)
(*                                                                         *)
(* Spec: one Grapple, invocations one after the other.                     *)
(* SpecIsPatched: isPatched applied to every shape of annotations.         *)
(* SpecRestart: a second process started after the first returned or was   *)
(* killed.  SpecConcurrent: two processes whose commands interleave.       *)
(***************************************************************************)
EXTENDS Integers, Sequences, FiniteSets, TLC

\* ------------------------------------------------------------------ bounds
MaxInitRevs == 3
MaxOps == 2
MaxConcurrentRevs == 2

\* --------------------------------------------------------------- constants
Procs == {1}

deploymentName == "web"
appContainer == "app"
appImage == "app:1.0"
createdByAnnotation == "created-by"
defaultPatchCreator == "gograpple"
defaultPatchChangeCause == "gograpple patch"
defaultConfigMapDeploymentSuffix == "-deployment"
defaultPatchImageSuffix == "-patch"
defaultTag == "latest"

Platforms == {"linux/amd64", "linux/arm64"}
\* A string that is used as a path is written as the sequence of its
\* "/"-separated elements: "" is <<"">>, "repo" is <<"repo">>, "repo/" is
\* <<"repo", "">>, "./" is <<".", "">>, "/x" is <<"", "x">>.
EmptyString == <<"">>
\* no repository, a plain one, and "./", which path.Join cleans away
Repos == {EmptyString, <<"repo">>, <<".", "">>}
Containers == {appContainer, "bogus"}

NoAnnotations == [k \in {} |-> ""]

\* ------------------------------------------------------------ pure helpers
Max(S) == CHOOSE x \in S : \A y \in S : y <= x

\* patchValues built for one Patch call
newPatchValues_otherCreator(deployment, container, image) ==
  [ChangeCause |-> defaultPatchChangeCause, CreatedBy |-> "someone-else",
   Deployment |-> deployment, Container |-> container, Image |-> image]

newPatchValues(deployment, container, image) ==
  [ChangeCause |-> defaultPatchChangeCause, CreatedBy |-> defaultPatchCreator,
   Deployment |-> deployment, Container |-> container, Image |-> image]

DeploymentConfigMapName(name) == <<name, defaultConfigMapDeploymentSuffix>>

\* path.Clean: empty and "." elements are dropped, ".." removes the element
\* before it, is dropped at the root and is kept at the start of a relative path
Rooted(s) == Len(s) >= 2 /\ s[1] = ""

RECURSIVE CleanElems(_, _, _)
CleanElems(elems, out, rooted) ==
  IF elems = <<>> THEN out
  ELSE LET e == Head(elems)
           rest == Tail(elems)
       IN IF e = "" \/ e = "." THEN CleanElems(rest, out, rooted)
          ELSE IF e # ".." THEN CleanElems(rest, Append(out, e), rooted)
          ELSE IF out # <<>> /\ out[Len(out)] # ".."
               THEN CleanElems(rest, SubSeq(out, 1, Len(out) - 1), rooted)
          ELSE IF rooted THEN CleanElems(rest, out, rooted)
          ELSE CleanElems(rest, Append(out, ".."), rooted)

path_Clean(s) ==
  LET out == CleanElems(s, <<>>, Rooted(s)) IN
  IF Rooted(s) THEN (IF out = <<>> THEN <<"", "">> ELSE <<"">> \o out)
  ELSE IF out = <<>> THEN <<".">> ELSE out

\* path.Join: empty arguments are ignored, the rest is joined with "/" and cleaned
path_Join(a, b) ==
  IF a = EmptyString THEN (IF b = EmptyString THEN EmptyString ELSE path_Clean(b))
  ELSE IF b = EmptyString THEN path_Clean(a)
  ELSE path_Clean(a \o b)

\* the image name is the path followed by the suffix
patchedImageName(name, repo) ==
  IF repo # EmptyString THEN <<path_Join(repo, <<name>>), defaultPatchImageSuffix>>
                        ELSE <<<<name>>, defaultPatchImageSuffix>>

completePatchedImage(name, repo) == <<patchedImageName(name, repo), ":", defaultTag>>

\* the marker test of isPatched on a deployment that was read successfully
hasMarker(d) ==
  /\ createdByAnnotation \in DOMAIN d.annotations
  /\ d.annotations[createdByAnnotation] = defaultPatchCreator

\* a variant that tests the key alone
isPatched_keyOnly(readOk, d) == readOk /\ createdByAnnotation \in DOMAIN d.annotations

\* isPatched: a failed read counts as "not patched"
isPatched(readOk, d) == readOk /\ hasMarker(d)

\* ------------------------------------------------------------------- state
VARIABLES
  hist,          \* revision number -> pod template of that revision
  configmaps,    \* configmap name -> stored deployment (absent names are not in the domain)
  changeCause,   \* change-cause annotation of the deployment
  pc,            \* position of each invocation
  op,            \* "Patch" or "Rollback": the entry point of the invocation
  args,          \* arguments of the Patch call, each drawn where Patch first reads it
  g_deployment,  \* Grapple.deployment: the deployment cached by updateDeployment
  revision,      \* rollback: result of GetLatestRevision
  i,             \* rollback: loop variable
  result,        \* returned error ("nil" for success, "none" while running)
  cmds,          \* commands issued by the current invocation, in order
  entry,         \* cluster state when the current invocation started
  prev,          \* entry point of the previous invocation and whether it returned nil
  ops            \* number of invocations started

cluster == <<hist, configmaps, changeCause>>
vars == <<hist, configmaps, changeCause, pc, op, args, g_deployment, revision, i,
          result, cmds, entry, prev, ops>>

\* ----------------------------------------------------------------- cluster
UnpatchedTemplate == [annotations |-> NoAnnotations, image |-> <<appImage>>]
PatchedTemplate ==
  [annotations |-> (createdByAnnotation :> defaultPatchCreator),
   image |-> completePatchedImage(deploymentName, <<"repo">>)]

Latest(h) == Max(DOMAIN h)

\* the deployment as `kubectl get deployment -o json` returns it
LiveDeployment(h) ==
  [name |-> deploymentName, containers |-> {appContainer},
   annotations |-> h[Latest(h)].annotations, image |-> h[Latest(h)].image]

\* revision reached by `rollout undo --to-revision=n`: revision n when it is
\* in the history; 0 names the previous revision when there is no revision 0
UndoTarget(h, n) ==
  IF n \in DOMAIN h THEN {n}
  ELSE IF n = 0 /\ Cardinality(DOMAIN h) > 1 THEN {Max(DOMAIN h \ {Latest(h)})}
  ELSE {}

\* the revision rolled back to becomes the newest revision
UndoTo(h, t) ==
  [r \in (DOMAIN h \ {t}) \cup {Latest(h) + 1} |->
     IF r = Latest(h) + 1 THEN h[t] ELSE h[r]]

\* strategic-merge patch rendered from the patch values
ApplyPatch(h, values) ==
  [r \in DOMAIN h \cup {Latest(h) + 1} |->
     IF r = Latest(h) + 1
     THEN [annotations |-> (createdByAnnotation :> values.CreatedBy), image |-> values.Image]
     ELSE h[r]]

\* histories the workload may have when the tool is first pointed at it:
\* revisions 0 .. n-1, each with or without the patch marker
InitHists ==
  UNION { [ (0 .. (n - 1)) -> {UnpatchedTemplate, PatchedTemplate} ] : n \in 1 .. MaxInitRevs }

UnpatchedDeployment ==
  [name |-> deploymentName, containers |-> {appContainer},
   annotations |-> NoAnnotations, image |-> <<appImage>>]

NoArgs == [repo |-> <<"-">>, platform |-> "-", container |-> "-"]

NoConfigMaps == [k \in {} |-> UnpatchedDeployment]
SnapshotOf(d) == (DeploymentConfigMapName(deploymentName) :> d)

Init ==
  /\ hist \in InitHists
  /\ configmaps = IF hasMarker(LiveDeployment(hist))
                  THEN SnapshotOf(UnpatchedDeployment)
                  ELSE NoConfigMaps
  /\ changeCause = <<"none", 0>>
  /\ pc = [p \in Procs |-> "idle"]
  /\ op = [p \in Procs |-> "none"]
  /\ args = [p \in Procs |-> NoArgs]
  /\ g_deployment = [p \in Procs |-> LiveDeployment(hist)]
  /\ revision = [p \in Procs |-> 0]
  /\ i = [p \in Procs |-> 0]
  /\ result = [p \in Procs |-> "none"]
  /\ cmds = [p \in Procs |-> <<>>]
  /\ entry = [p \in Procs |-> <<hist, configmaps, changeCause>>]
  /\ prev = [op |-> "none", ok |-> FALSE]
  /\ ops = 0

\* ----------------------------------------------------------- bookkeeping
Idle(p) == pc[p] \in {"idle", "done"}

Issue(p, c, a) == cmds' = [cmds EXCEPT ![p] = Append(@, [cmd |-> c, arg |-> a])]

Goto(p, l) == pc' = [pc EXCEPT ![p] = l]

Return(p, err) ==
  /\ pc' = [pc EXCEPT ![p] = "done"]
  /\ result' = [result EXCEPT ![p] = err]

Call(p, o) ==
  /\ Idle(p)
  /\ args' = [args EXCEPT ![p] = NoArgs]
  /\ ops < MaxOps
  /\ ops' = ops + 1
  /\ op' = [op EXCEPT ![p] = o]
  /\ entry' = [entry EXCEPT ![p] = cluster]
  /\ prev' = IF pc[p] = "done" THEN [op |-> op[p], ok |-> (result[p] = "nil")] ELSE prev
  /\ revision' = [revision EXCEPT ![p] = 0]
  /\ i' = [i EXCEPT ![p] = 0]

B2N(b) == IF b THEN 1 ELSE 0

\* DeleteConfigMap: fails when the configmap does not exist, may fail otherwise
DeleteConfigMap(name, ok) ==
  IF ok THEN [k \in DOMAIN configmaps \ {name} |-> configmaps[k]] ELSE configmaps

\* ---------------------------------------------------- rollback (167-193)
RollbackLoopStart_fromLatest(rev) == rev

RollbackLoopStart(rev) == rev - 1

RollbackLoopCond(n) == n >= 0

RollbackLoopNext_skip(n) == n - 2

RollbackLoopNext(n) == n - 1

\* a failed rollback: Rollback and Patch both return its error (49-51, 155)
rollback_return_err(p, err) == Return(p, err)

\* a successful rollback: Rollback returns nil (155), Patch goes on (52-53)
rollback_return_nil_skipSnapshot(p) ==
  IF op[p] = "Rollback"
  THEN Return(p, "nil")
  ELSE Goto(p, "P_WaitForRollout") /\ UNCHANGED result

rollback_return_nil(p) ==
  IF op[p] = "Rollback"
  THEN Return(p, "nil")
  ELSE Goto(p, "P_ValidateContainer") /\ UNCHANGED result

\* a variant whose loop body starts at the undo
rollback_loop_undoFirst(p, n) ==
  /\ i' = [i EXCEPT ![p] = n]
  /\ IF RollbackLoopCond(n)
     THEN Goto(p, "rb_RolloutUndo") /\ UNCHANGED result
     ELSE rollback_return_err(p, "errCouldntRollback")

\* enter the loop at n, or leave it with the exhaustion error
rollback_loop(p, n) ==
  /\ i' = [i EXCEPT ![p] = n]
  /\ IF RollbackLoopCond(n)
     THEN Goto(p, "rb_DeleteConfigMap") /\ UNCHANGED result
     ELSE rollback_return_err(p, "errCouldntRollback")

rollback_GetLatestRevision(p) ==
  /\ pc[p] = "rb_GetLatestRevision"
  /\ \E ok \in BOOLEAN :
       IF ok
       THEN /\ revision' = [revision EXCEPT ![p] = Latest(hist)]
            /\ rollback_loop(p, RollbackLoopStart(Latest(hist)))
       ELSE /\ rollback_return_err(p, "errGetLatestRevision")
            /\ UNCHANGED <<revision, i>>
  /\ UNCHANGED <<hist, configmaps, changeCause, op, args, g_deployment, cmds, entry, prev, ops>>

rollback_DeleteConfigMap(p) ==
  /\ pc[p] = "rb_DeleteConfigMap"
  /\ \E ok \in BOOLEAN :
       /\ ok => DeploymentConfigMapName(g_deployment[p].name) \in DOMAIN configmaps
       /\ configmaps' = DeleteConfigMap(DeploymentConfigMapName(g_deployment[p].name), ok)
       /\ Issue(p, "DeleteConfigMap", B2N(ok))
  /\ Goto(p, "rb_RolloutUndo")
  /\ UNCHANGED <<hist, changeCause, op, args, g_deployment, revision, i, result, entry, prev, ops>>

rollback_RolloutUndo(p) ==
  /\ pc[p] = "rb_RolloutUndo"
  /\ Issue(p, "RolloutUndo", i[p])
  /\ \/ /\ rollback_return_err(p, "errRolloutUndo")
        /\ UNCHANGED hist
     \/ \E t \in UndoTarget(hist, i[p]) :
          /\ hist' = UndoTo(hist, t)
          /\ Goto(p, "rb_isPatched")
          /\ UNCHANGED result
  /\ UNCHANGED <<configmaps, changeCause, op, args, g_deployment, revision, i, entry, prev, ops>>

rollback_isPatched(p) ==
  /\ pc[p] = "rb_isPatched"
  /\ \E readOk \in BOOLEAN :
       LET observed == isPatched(readOk, LiveDeployment(hist)) IN
       /\ Issue(p, "isPatched", B2N(observed))
       /\ IF ~observed
          THEN Goto(p, "rb_UpdateChangeCause") /\ UNCHANGED <<result, i>>
          ELSE rollback_loop(p, RollbackLoopNext(i[p]))
  /\ UNCHANGED <<hist, configmaps, changeCause, op, args, g_deployment, revision, entry, prev, ops>>

\* a variant that reports success whether or not the update was written
rollback_UpdateChangeCause_unchecked(p) ==
  /\ pc[p] = "rb_UpdateChangeCause"
  /\ Issue(p, "UpdateChangeCause", i[p])
  /\ \E ok \in BOOLEAN :
       /\ changeCause' = IF ok THEN <<"rollback to", i[p]>> ELSE changeCause
       /\ rollback_return_nil(p)
  /\ UNCHANGED <<hist, configmaps, op, args, g_deployment, revision, i, entry, prev, ops>>

rollback_UpdateChangeCause(p) ==
  /\ pc[p] = "rb_UpdateChangeCause"
  /\ Issue(p, "UpdateChangeCause", i[p])
  /\ \E ok \in BOOLEAN :
       IF ok
       THEN /\ changeCause' = <<"rollback to", i[p]>>
            /\ rollback_return_nil(p)
       ELSE /\ rollback_return_err(p, "errUpdateChangeCause")
            /\ UNCHANGED changeCause
  /\ UNCHANGED <<hist, configmaps, op, args, g_deployment, revision, i, entry, prev, ops>>

\* ---------------------------------------------------- Rollback (150-156)
RollbackPrecondition_always(observed) == TRUE

RollbackPrecondition(observed) == observed

Rollback(p) ==
  /\ Call(p, "Rollback")
  /\ \E readOk \in BOOLEAN :
       LET observed == isPatched(readOk, LiveDeployment(hist)) IN
       /\ cmds' = [cmds EXCEPT ![p] = <<[cmd |-> "isPatched", arg |-> B2N(observed)]>>]
       /\ IF ~RollbackPrecondition(observed)
          THEN Return(p, "errNotPatched")
          ELSE /\ Goto(p, "rb_GetLatestRevision")
               /\ result' = [result EXCEPT ![p] = "none"]
  /\ UNCHANGED <<hist, configmaps, changeCause, g_deployment>>

\* -------------------------------------------------------- Patch (45-148)
\* ValidateContainer looks the container up in the cached deployment
ValidateContainer(d, container) == container \in d.containers

\* json.Marshal(g.deployment), stored under the one configmap key
SnapshotData(p) == g_deployment[p]

\* line 47: the state check that decides whether a rollback comes first
Patch(p) ==
  /\ Call(p, "Patch")
  /\ \E readOk \in BOOLEAN :
       LET observed == isPatched(readOk, LiveDeployment(hist)) IN
       /\ cmds' = [cmds EXCEPT ![p] = <<[cmd |-> "isPatched", arg |-> B2N(observed)]>>]
       /\ IF observed
          THEN Goto(p, "rb_GetLatestRevision")
          ELSE Goto(p, "P_ValidateContainer")
  /\ result' = [result EXCEPT ![p] = "none"]
  /\ UNCHANGED <<hist, configmaps, changeCause, g_deployment>>

Patch_ValidateContainer(p) ==
  /\ pc[p] = "P_ValidateContainer"
  /\ \E container \in Containers :
       /\ args' = [args EXCEPT ![p].container = container]
       /\ IF ValidateContainer(g_deployment[p], container)
          THEN Goto(p, "P_ImageInspect") /\ UNCHANGED result
          ELSE Return(p, "errValidateContainer")
  /\ UNCHANGED <<hist, configmaps, changeCause, op, g_deployment, revision, i, cmds, entry, prev, ops>>

\* lines 58-65: the platform the image was built for is compared with the argument
Patch_ImageInspect(p) ==
  /\ pc[p] = "P_ImageInspect"
  /\ \E platform \in Platforms :
       /\ args' = [args EXCEPT ![p].platform = platform]
       /\ \/ Return(p, "errImageInspect")
          \/ \E imagePlatform \in Platforms :
               IF platform # imagePlatform
               THEN Return(p, "errPlatform")
               ELSE Goto(p, "P_DeleteConfigMap") /\ UNCHANGED result
  /\ UNCHANGED <<hist, configmaps, changeCause, op, g_deployment, revision, i, cmds, entry, prev, ops>>

\* a variant that returns the error of the delete
Patch_DeleteConfigMap_failFast(p) ==
  /\ pc[p] = "P_DeleteConfigMap"
  /\ \E ok \in BOOLEAN :
       /\ ok => DeploymentConfigMapName(g_deployment[p].name) \in DOMAIN configmaps
       /\ configmaps' = DeleteConfigMap(DeploymentConfigMapName(g_deployment[p].name), ok)
       /\ Issue(p, "DeleteConfigMap", B2N(ok))
       /\ IF ok
          THEN Goto(p, "P_CreateConfigMap") /\ UNCHANGED result
          ELSE Return(p, "errDeleteConfigMap")
  /\ UNCHANGED <<hist, changeCause, op, args, g_deployment, revision, i, entry, prev, ops>>

\* line 72: the error of the delete is dropped
Patch_DeleteConfigMap(p) ==
  /\ pc[p] = "P_DeleteConfigMap"
  /\ \E ok \in BOOLEAN :
       /\ ok => DeploymentConfigMapName(g_deployment[p].name) \in DOMAIN configmaps
       /\ configmaps' = DeleteConfigMap(DeploymentConfigMapName(g_deployment[p].name), ok)
       /\ Issue(p, "DeleteConfigMap", B2N(ok))
  /\ Goto(p, "P_CreateConfigMap")
  /\ UNCHANGED <<hist, changeCause, op, args, g_deployment, revision, i, result, entry, prev, ops>>

\* lines 73-77: creating a configmap that exists fails
Patch_CreateConfigMap(p) ==
  /\ pc[p] = "P_CreateConfigMap"
  /\ Issue(p, "CreateConfigMap", 0)
  /\ \/ /\ Return(p, "errCreateConfigMap")
        /\ UNCHANGED configmaps
     \/ /\ DeploymentConfigMapName(g_deployment[p].name) \notin DOMAIN configmaps
        /\ configmaps' = [k \in DOMAIN configmaps \cup {DeploymentConfigMapName(g_deployment[p].name)} |->
                            IF k = DeploymentConfigMapName(g_deployment[p].name)
                            THEN SnapshotData(p) ELSE configmaps[k]]
        /\ Goto(p, "P_WaitForRollout")
        /\ UNCHANGED result
  /\ UNCHANGED <<hist, changeCause, op, args, g_deployment, revision, i, entry, prev, ops>>

\* a variant that goes on after a failed wait
Patch_WaitForRollout_ignoreError(p) ==
  /\ pc[p] = "P_WaitForRollout"
  /\ \E ok \in BOOLEAN : Issue(p, "WaitForRollout", B2N(ok))
  /\ Goto(p, "P_extract") /\ UNCHANGED result
  /\ UNCHANGED <<hist, configmaps, changeCause, op, args, g_deployment, revision, i, entry, prev, ops>>

\* lines 79-83: the wait succeeds, or fails or times out
Patch_WaitForRollout(p) ==
  /\ pc[p] = "P_WaitForRollout"
  /\ \E ok \in BOOLEAN :
       /\ Issue(p, "WaitForRollout", B2N(ok))
       /\ IF ok
          THEN Goto(p, "P_extract") /\ UNCHANGED result
          ELSE Return(p, "errWaitForRollout")
  /\ UNCHANGED <<hist, configmaps, changeCause, op, args, g_deployment, revision, i, entry, prev, ops>>

\* lines 85-112: the embedded patch files are written to the temp directory
Patch_extract(p) ==
  /\ pc[p] = "P_extract"
  /\ \/ Return(p, "errExtract")
     \/ Goto(p, "P_Build") /\ UNCHANGED result
  /\ UNCHANGED <<hist, configmaps, changeCause, op, args, g_deployment, revision, i, cmds, entry, prev, ops>>

\* lines 114-122; line 124 decides whether a push follows
Patch_Build(p) ==
  /\ pc[p] = "P_Build"
  /\ Issue(p, "Build", 0)
  /\ \E repo \in Repos :
       /\ args' = [args EXCEPT ![p].repo = repo]
       /\ \/ Return(p, "errBuild")
          \/ /\ Goto(p, IF repo # EmptyString THEN "P_Push" ELSE "P_renderTemplate")
             /\ UNCHANGED result
  /\ UNCHANGED <<hist, configmaps, changeCause, op, g_deployment, revision, i, entry, prev, ops>>

\* a variant that removes the snapshot when the push fails
Patch_Push_cleanup(p) ==
  /\ pc[p] = "P_Push"
  /\ Issue(p, "Push", 0)
  /\ \/ /\ Return(p, "errPush")
        /\ configmaps' = DeleteConfigMap(DeploymentConfigMapName(g_deployment[p].name), TRUE)
     \/ Goto(p, "P_renderTemplate") /\ UNCHANGED <<result, configmaps>>
  /\ UNCHANGED <<hist, changeCause, op, args, g_deployment, revision, i, entry, prev, ops>>

\* lines 124-131
Patch_Push(p) ==
  /\ pc[p] = "P_Push"
  /\ Issue(p, "Push", 0)
  /\ \/ Return(p, "errPush")
     \/ Goto(p, "P_renderTemplate") /\ UNCHANGED result
  /\ UNCHANGED <<hist, configmaps, changeCause, op, args, g_deployment, revision, i, entry, prev, ops>>

\* lines 133-140
Patch_renderTemplate(p) ==
  /\ pc[p] = "P_renderTemplate"
  /\ \/ Return(p, "errRender")
     \/ Goto(p, "P_PatchDeployment") /\ UNCHANGED result
  /\ UNCHANGED <<hist, configmaps, changeCause, op, args, g_deployment, revision, i, cmds, entry, prev, ops>>

\* lines 142-147
Patch_PatchDeployment(p) ==
  /\ pc[p] = "P_PatchDeployment"
  /\ Issue(p, "PatchDeployment", 0)
  /\ \/ /\ Return(p, "errPatchDeployment")
        /\ UNCHANGED <<hist, changeCause>>
     \/ LET values == newPatchValues(g_deployment[p].name, args[p].container,
                                     completePatchedImage(g_deployment[p].name, args[p].repo)) IN
        /\ hist' = ApplyPatch(hist, values)
        /\ changeCause' = <<values.ChangeCause, 0>>
        /\ Return(p, "nil")
  /\ UNCHANGED <<configmaps, op, args, g_deployment, revision, i, entry, prev, ops>>

\* ------------------------------------------------ updateDeployment (206-213)
updateDeployment(p) ==
  /\ Idle(p)
  /\ \E ok \in BOOLEAN :
       g_deployment' = [g_deployment EXCEPT ![p] = IF ok THEN LiveDeployment(hist) ELSE @]
  /\ UNCHANGED <<hist, configmaps, changeCause, pc, op, args, revision, i, result, cmds, entry, prev, ops>>

\* ----------------------------------------------------------- specification
Next ==
  \E p \in Procs :
    \/ Patch(p)
    \/ Patch_ValidateContainer(p)
    \/ Patch_ImageInspect(p)
    \/ Patch_DeleteConfigMap(p)
    \/ Patch_CreateConfigMap(p)
    \/ Patch_WaitForRollout(p)
    \/ Patch_extract(p)
    \/ Patch_Build(p)
    \/ Patch_Push(p)
    \/ Patch_renderTemplate(p)
    \/ Patch_PatchDeployment(p)
    \/ Rollback(p)
    \/ rollback_GetLatestRevision(p)
    \/ rollback_DeleteConfigMap(p)
    \/ rollback_RolloutUndo(p)
    \/ rollback_isPatched(p)
    \/ rollback_UpdateChangeCause(p)
    \/ updateDeployment(p)

Spec == Init /\ [][Next]_vars

TypeOK ==
  /\ DOMAIN hist # {}
  /\ ops \in 0 .. MaxOps
  /\ \A p \in Procs : result[p] = "none" <=> pc[p] # "done"

\* --------------------------------------------- isPatched as a function
\* isPatched (158-165) applied to every shape of pod-template annotations:
\* the marker key absent, present with the creator value, present with
\* another value, beside an unrelated key; the read may fail.
MaxReads == 2

otherAnnotation == "team"
AnnotationValues == {defaultPatchCreator, "someone-else", "Gograpple"}

AnnotationMaps ==
  UNION { [ks -> AnnotationValues] : ks \in SUBSET {createdByAnnotation, otherAnnotation} }

InitIsPatched ==
  /\ \E a \in AnnotationMaps : hist = (0 :> [annotations |-> a, image |-> <<appImage>>])
  /\ configmaps \in {NoConfigMaps, SnapshotOf(UnpatchedDeployment)}
  /\ changeCause = <<"none", 0>>
  /\ pc = [p \in Procs |-> "idle"]
  /\ op = [p \in Procs |-> "none"]
  /\ args = [p \in Procs |-> NoArgs]
  /\ g_deployment = [p \in Procs |-> LiveDeployment(hist)]
  /\ revision = [p \in Procs |-> 0]
  /\ i = [p \in Procs |-> 0]
  /\ result = [p \in Procs |-> "none"]
  /\ cmds = [p \in Procs |-> <<>>]
  /\ entry = [p \in Procs |-> <<hist, configmaps, changeCause>>]
  /\ prev = [op |-> "none", ok |-> FALSE]
  /\ ops = 0

\* one call of isPatched: GetDeployment (line 159) succeeds or fails, the
\* returned bool is logged after it; nothing else is written
isPatched_call(p) ==
  /\ Len(cmds[p]) < 2 * MaxReads
  /\ \E readOk \in BOOLEAN :
       cmds' = [cmds EXCEPT ![p] =
                  @ \o <<[cmd |-> "GetDeployment", arg |-> B2N(readOk)],
                         [cmd |-> "isPatched", arg |-> B2N(isPatched(readOk, LiveDeployment(hist)))]>>]
  /\ UNCHANGED <<hist, configmaps, changeCause, pc, op, args, g_deployment, revision, i,
                 result, entry, prev, ops>>

NextIsPatched == \E p \in Procs : isPatched_call(p)

SpecIsPatched == InitIsPatched /\ [][NextIsPatched]_vars
\* ------------------------------------------- invocations of several processes
\* Every run of the tool is a process of its own: it builds its Grapple
\* (updateDeployment), runs one Patch or Rollback against the shared cluster
\* and exits, or is killed between two of its commands.
Processes == {1, 2}

InitProcesses ==
  /\ hist \in InitHists
  /\ configmaps = IF hasMarker(LiveDeployment(hist))
                  THEN SnapshotOf(UnpatchedDeployment)
                  ELSE NoConfigMaps
  /\ changeCause = <<"none", 0>>
  /\ pc = [p \in Processes |-> "idle"]
  /\ op = [p \in Processes |-> "none"]
  /\ args = [p \in Processes |-> NoArgs]
  /\ g_deployment = [p \in Processes |-> LiveDeployment(hist)]
  /\ revision = [p \in Processes |-> 0]
  /\ i = [p \in Processes |-> 0]
  /\ result = [p \in Processes |-> "none"]
  /\ cmds = [p \in Processes |-> <<>>]
  /\ entry = [p \in Processes |-> <<hist, configmaps, changeCause>>]
  /\ prev = [op |-> "none", ok |-> FALSE]
  /\ ops = 0

\* one step of the single invocation of process p
Step(p) ==
  \/ pc[p] = "idle" /\ updateDeployment(p)
  \/ pc[p] = "idle" /\ Patch(p)
  \/ Patch_ValidateContainer(p)
  \/ Patch_ImageInspect(p)
  \/ Patch_DeleteConfigMap(p)
  \/ Patch_CreateConfigMap(p)
  \/ Patch_WaitForRollout(p)
  \/ Patch_extract(p)
  \/ Patch_Build(p)
  \/ Patch_Push(p)
  \/ Patch_renderTemplate(p)
  \/ Patch_PatchDeployment(p)
  \/ pc[p] = "idle" /\ Rollback(p)
  \/ rollback_GetLatestRevision(p)
  \/ rollback_DeleteConfigMap(p)
  \/ rollback_RolloutUndo(p)
  \/ rollback_isPatched(p)
  \/ rollback_UpdateChangeCause(p)

\* the process is killed between two commands: it takes no further step and
\* what it has written to the cluster stays
Kill(p) ==
  /\ pc[p] \notin {"idle", "done", "killed"}
  /\ pc' = [pc EXCEPT ![p] = "killed"]
  /\ UNCHANGED <<hist, configmaps, changeCause, op, args, g_deployment, revision, i, result,
                 cmds, entry, prev, ops>>

\* the Grapple of a run is built when the run starts: updateDeployment has
\* stored the workload as it is then (when that read fails no Grapple is
\* built and neither Patch nor Rollback is called)
Built(p) == g_deployment[p] = LiveDeployment(hist)

\* process 2 is started after process 1 has returned or was killed
NextRestart ==
  \/ pc[2] = "idle" /\ Step(1)
  \/ pc[2] = "idle" /\ Kill(1)
  \/ pc[1] \in {"done", "killed"} /\ pc[2] = "idle" /\ updateDeployment(2)
  \/ pc[1] \in {"done", "killed"} /\ (pc[2] = "idle" => Built(2)) /\ Step(2)

SpecRestart == InitProcesses /\ [][NextRestart]_vars

\* the two processes run at the same time, their commands interleave
InitConcurrent ==
  /\ InitProcesses
  /\ Latest(hist) < MaxConcurrentRevs

NextConcurrent == \E p \in Processes : Step(p)

SpecConcurrent == InitConcurrent /\ [][NextConcurrent]_vars
\* ------------------------------------------------------------------ claims
Live == LiveDeployment(hist)
Returned(p, o, r) == pc[p] = "done" /\ op[p] = o /\ result[p] = r
EntryLive(p) == LiveDeployment(entry[p][1])
Undos(p) == SelectSeq(cmds[p], LAMBDA c : c.cmd = "RolloutUndo")
Issued(p, c) == \E k \in 1 .. Len(cmds[p]) : cmds[p][k].cmd = c
SnapshotName == DeploymentConfigMapName(deploymentName)

\* C1: once Patch has returned nil, isPatched (with the read succeeding)
\* returns true: the pod template carries the marker with the creator value
C1_PatchedAfterPatch ==
  \A p \in Procs : Returned(p, "Patch", "nil") => isPatched(TRUE, Live)

C1_Witness ==
  \E p \in Procs : Returned(p, "Patch", "nil") /\ isPatched(TRUE, Live)
                   /\ ~hasMarker(EntryLive(p))

\* C2: once Rollback has returned nil, the marker is absent from the workload
C2_UnpatchedAfterRollback ==
  \A p \in Procs : Returned(p, "Rollback", "nil") => ~hasMarker(Live)

\* C3: Rollback on a workload without the marker returns the "not patched"
\* error, has issued no command besides the state read, and leaves the
\* cluster as it was
C3_RollbackUnpatched ==
  \A p \in Procs :
    (op[p] = "Rollback" /\ ~hasMarker(EntryLive(p))) =>
       /\ Returned(p, "Rollback", "errNotPatched")
       /\ \A k \in 1 .. Len(cmds[p]) : cmds[p][k].cmd = "isPatched"
       /\ cluster = entry[p]

C3_Witness ==
  \E p \in Procs : Returned(p, "Rollback", "errNotPatched") /\ ~hasMarker(EntryLive(p))
                   /\ cluster = entry[p]

\* C4: the k-th undo of a rollback is for revision r-k, where r is the latest
\* revision when the rollback started, never below 0, and no undo follows a
\* state check that found the workload unpatched
C4_UndoOrder ==
  \A p \in Procs :
    /\ LET undos == Undos(p) IN
         \A k \in 1 .. Len(undos) :
           /\ undos[k].arg = Latest(entry[p][1]) - k
           /\ undos[k].arg >= 0
    /\ \A k \in 1 .. Len(cmds[p]) :
         cmds[p][k].cmd = "RolloutUndo" =>
           \A j \in 1 .. (k - 1) : ~(cmds[p][j].cmd = "isPatched" /\ cmds[p][j].arg = 0)

C4_Witness ==
  \E p \in Procs :
    /\ Returned(p, "Rollback", "nil")
    /\ Latest(entry[p][1]) = 3
    /\ Len(Undos(p)) = 3
    /\ Undos(p)[1].arg = 2 /\ Undos(p)[2].arg = 1 /\ Undos(p)[3].arg = 0
    /\ ~hasMarker(Live)

RollbackErrors == {"errGetLatestRevision", "errRolloutUndo", "errUpdateChangeCause", "errCouldntRollback"}
ValidationErrors == {"errValidateContainer", "errPlatform"}
PatchCommands == {"CreateConfigMap", "WaitForRollout", "Build", "Push", "PatchDeployment"}
\* the workload carried the marker when the invocation started
PatchedAtEntry(p) == hasMarker(EntryLive(p))
\* the state check at entry returned false
ObservedUnpatchedAtEntry(p) == Len(cmds[p]) > 0 /\ cmds[p][1] = [cmd |-> "isPatched", arg |-> 0]

\* before command k the rollback inside this invocation ran to its end: a
\* state check that returned false, followed by the change-cause update
RollbackRanBefore(p, k) ==
  \E j \in 2 .. (k - 1) :
    /\ cmds[p][j].cmd = "UpdateChangeCause"
    /\ cmds[p][j - 1] = [cmd |-> "isPatched", arg |-> 0]

\* C5: a Rollback that read the latest revision r, issued all r undos without
\* an undo failing and left the marker in place returns the exhaustion error,
\* and no Rollback returns nil while the marker is present
C5_ExhaustionIsAnError ==
  \A p \in Procs :
    (pc[p] = "done" /\ op[p] = "Rollback" /\ hasMarker(Live)) =>
       /\ result[p] # "nil"
       /\ (/\ result[p] \notin {"errNotPatched", "errGetLatestRevision", "errRolloutUndo"}
           /\ Len(Undos(p)) = Latest(entry[p][1]))
          => result[p] = "errCouldntRollback"

\* C6: after a successful Patch that follows a successful Patch, the only
\* configmap is the snapshot <workload><suffix> and the pod template carries
\* the marker annotation once, with the creator value
C6_RepatchShape ==
  \A p \in Procs :
    (Returned(p, "Patch", "nil") /\ prev = [op |-> "Patch", ok |-> TRUE]) =>
       /\ DOMAIN configmaps = {SnapshotName}
       /\ Live.annotations = (createdByAnnotation :> defaultPatchCreator)

C6_Witness ==
  \E p \in Procs :
    /\ Returned(p, "Patch", "nil") /\ prev = [op |-> "Patch", ok |-> TRUE]
    /\ Issued(p, "RolloutUndo")
    /\ DOMAIN configmaps = {SnapshotName}
    /\ hasMarker(Live)

\* C7: a Patch that started on a workload carrying the marker issues the
\* commands of the patch pipeline only after its rollback ran to its end,
\* and the workload carries no marker when PatchDeployment is about to be
\* issued; a Patch that returns a rollback error has issued none of the
\* pipeline commands; PatchDeployment is issued only when the state check at
\* entry returned false or the rollback ran to its end
C7_NoPatchOnPatch ==
  \A p \in Procs :
    op[p] = "Patch" =>
      /\ \A k \in 1 .. Len(cmds[p]) :
           (PatchedAtEntry(p) /\ cmds[p][k].cmd \in PatchCommands)
              => RollbackRanBefore(p, k)
      /\ pc[p] = "P_PatchDeployment" => ~hasMarker(Live)
      /\ (pc[p] = "done" /\ result[p] \in RollbackErrors)
              => \A k \in 1 .. Len(cmds[p]) : cmds[p][k].cmd \notin PatchCommands
      /\ \A k \in 1 .. Len(cmds[p]) :
           cmds[p][k].cmd = "PatchDeployment"
              => ObservedUnpatchedAtEntry(p) \/ RollbackRanBefore(p, k)

\* C8: a Patch that returns a validation error has issued no cluster command
\* and left the cluster as it found it
C8_ValidationBeforeMutation ==
  \A p \in Procs :
    (pc[p] = "done" /\ op[p] = "Patch" /\ result[p] \in ValidationErrors) =>
       /\ \A k \in 1 .. Len(cmds[p]) : cmds[p][k].cmd = "isPatched"
       /\ cluster = entry[p]

\* C9: after an invocation has returned, a workload that carries the marker
\* has its snapshot configmap
C9_MarkerHasSnapshot ==
  \A p \in Procs :
    (pc[p] = "done" /\ hasMarker(Live)) => SnapshotName \in DOMAIN configmaps

\* C10: the snapshot never holds a deployment with the marker or the debug image
C10_SnapshotIsPrePatch ==
  SnapshotName \in DOMAIN configmaps =>
     /\ ~hasMarker(configmaps[SnapshotName])
     /\ configmaps[SnapshotName].image = <<appImage>>

\* C12: isPatched returns true exactly when the read succeeded and the
\* pod-template annotations hold the marker key with the creator value (so it
\* returns false when the key is absent, has another value, or the read
\* failed); it returns a bool and leaves the cluster as it was
C12_IsPatchedIffMarker ==
  \A p \in Procs : \A k \in 1 .. Len(cmds[p]) :
    cmds[p][k].cmd = "isPatched" =>
      /\ cmds[p][k].arg \in {0, 1}
      /\ cmds[p][k].arg = 1 <=>
           /\ cmds[p][k - 1].cmd = "GetDeployment" /\ cmds[p][k - 1].arg = 1
           /\ createdByAnnotation \in DOMAIN Live.annotations
           /\ Live.annotations[createdByAnnotation] = defaultPatchCreator
      /\ cluster = entry[p]

C12_Witness ==
  \E p \in Procs : \E k \in 2 .. Len(cmds[p]) :
    /\ cmds[p][k].cmd = "isPatched" /\ cmds[p][k].arg = 0
    /\ cmds[p][k - 1].cmd = "GetDeployment" /\ cmds[p][k - 1].arg = 1
    /\ createdByAnnotation \in DOMAIN Live.annotations
    /\ Live.annotations[createdByAnnotation] = "someone-else"
    /\ otherAnnotation \in DOMAIN Live.annotations
    /\ Live.annotations[otherAnnotation] = defaultPatchCreator

AfterRolloutWait == {"P_extract", "P_Build", "P_Push", "P_renderTemplate", "P_PatchDeployment"}
MutatingCommands == {"Build", "Push", "PatchDeployment"}
LastCmd(p) == cmds[p][Len(cmds[p])].cmd
RolloutStable == [cmd |-> "WaitForRollout", arg |-> 1]

\* C14: in a Patch, the build, the push and the patch apply are issued only
\* after WaitForRollout has been issued and has succeeded in the same
\* invocation; a Patch whose rollout wait failed returns that error with the
\* wait as its last command and the workload as the wait left it
C14_PatchAfterRolloutWait ==
  \A p \in Procs :
    op[p] = "Patch" =>
      /\ \A k \in 1 .. Len(cmds[p]) :
           cmds[p][k].cmd \in MutatingCommands =>
              \E j \in 1 .. (k - 1) : cmds[p][j] = RolloutStable
      /\ pc[p] \in AfterRolloutWait => \E j \in 1 .. Len(cmds[p]) : cmds[p][j] = RolloutStable
      /\ \A k \in 1 .. Len(cmds[p]) :
           (cmds[p][k].cmd = "WaitForRollout" /\ cmds[p][k].arg = 0) =>
              /\ k = Len(cmds[p])
              /\ Returned(p, "Patch", "errWaitForRollout")
      /\ (pc[p] = "P_WaitForRollout" \/ (pc[p] = "done" /\ result[p] = "errWaitForRollout")) =>
           \A k \in 1 .. Len(cmds[p]) : cmds[p][k].cmd \notin MutatingCommands
      /\ (pc[p] = "done" /\ result[p] = "errWaitForRollout") => LastCmd(p) = "WaitForRollout"

C14_Witness ==
  \E p \in Procs :
    /\ Returned(p, "Patch", "errWaitForRollout")
    /\ Issued(p, "CreateConfigMap")
    /\ cmds[p][Len(cmds[p])] = [cmd |-> "WaitForRollout", arg |-> 0]
    /\ ~hasMarker(Live)

C14_WitnessApplied ==
  \E p \in Procs :
    /\ Returned(p, "Patch", "nil")
    /\ \E j \in 1 .. Len(cmds[p]) : cmds[p][j] = RolloutStable
    /\ LastCmd(p) = "PatchDeployment"

\* the command a Patch must have issued last when it returns a given error
\* (extracting and rendering issue no command of their own)
LastCommandOf ==
  [e \in {"errCreateConfigMap", "errWaitForRollout", "errExtract", "errBuild", "errPush",
          "errRender", "errPatchDeployment"} |->
     CASE e = "errCreateConfigMap" -> {"CreateConfigMap"}
       [] e = "errWaitForRollout"  -> {"WaitForRollout"}
       [] e = "errExtract"         -> {"WaitForRollout"}
       [] e = "errBuild"           -> {"Build"}
       [] e = "errPush"            -> {"Push"}
       [] e = "errRender"          -> {"Build", "Push"}
       [] e = "errPatchDeployment" -> {"PatchDeployment"}]
AfterSnapshotErrors == DOMAIN LastCommandOf \ {"errCreateConfigMap"}

\* C15: a Patch that returns the error of a step has issued no command of a
\* later step and none that undoes an earlier one; when the failing step comes
\* after the snapshot creation, the snapshot created by this invocation is
\* still there
C15_FailFastNoCleanup ==
  \A p \in Procs :
    (pc[p] = "done" /\ op[p] = "Patch" /\ result[p] \in DOMAIN LastCommandOf) =>
       /\ LastCmd(p) \in LastCommandOf[result[p]]
       /\ \A j \in 1 .. Len(cmds[p]) :
            cmds[p][j].cmd = "CreateConfigMap" =>
              \A k \in (j + 1) .. Len(cmds[p]) : cmds[p][k].cmd \in PatchCommands
       /\ result[p] \in AfterSnapshotErrors =>
            /\ Issued(p, "CreateConfigMap")
            /\ SnapshotName \in DOMAIN configmaps

C15_Witness ==
  \E p \in Procs :
    /\ Returned(p, "Patch", "errPush")
    /\ SnapshotName \notin DOMAIN entry[p][2]
    /\ SnapshotName \in DOMAIN configmaps
    /\ LastCmd(p) = "Push"
    /\ ~hasMarker(Live)

FailedDelete == [cmd |-> "DeleteConfigMap", arg |-> 0]
\* the delete at position k of the log is the one of Patch (line 72): it
\* follows the state check that found the workload unpatched, or the
\* change-cause update that ends the rollback inside Patch
PatchDeleteAt(p, k) ==
  /\ op[p] = "Patch"
  /\ cmds[p][k - 1] = [cmd |-> "isPatched", arg |-> 0] \/ cmds[p][k - 1].cmd = "UpdateChangeCause"

\* C16: a failed snapshot delete ends no invocation: after the failed delete
\* of Patch the snapshot creation is the next command, after a failed delete
\* of a rollback step the undo of that step is the next command
C16_DeleteFailureIgnored ==
  \A p \in Procs : \A k \in 2 .. Len(cmds[p]) :
    cmds[p][k] = FailedDelete =>
      IF PatchDeleteAt(p, k)
      THEN IF k < Len(cmds[p]) THEN cmds[p][k + 1].cmd = "CreateConfigMap"
                               ELSE pc[p] = "P_CreateConfigMap"
      ELSE IF k < Len(cmds[p]) THEN cmds[p][k + 1].cmd = "RolloutUndo"
                               ELSE pc[p] = "rb_RolloutUndo"

C16_Witness ==
  \E p \in Procs : \E j, k \in 2 .. Len(cmds[p]) :
    /\ Returned(p, "Patch", "nil")
    /\ cmds[p][j] = FailedDelete /\ ~PatchDeleteAt(p, j) /\ cmds[p][j + 1].cmd = "RolloutUndo"
    /\ cmds[p][k] = FailedDelete /\ PatchDeleteAt(p, k) /\ cmds[p][k + 1].cmd = "CreateConfigMap"

CountCmds(p, c) == Len(SelectSeq(cmds[p], LAMBDA x : x.cmd = c))
\* the deletes and state checks of the rollback steps: every delete but the
\* one of Patch, every state check but the one at entry
RollbackDeletes(p) ==
  Cardinality({k \in 2 .. Len(cmds[p]) : cmds[p][k].cmd = "DeleteConfigMap" /\ ~PatchDeleteAt(p, k)})
ReChecks(p) == IF cmds[p] = <<>> THEN 0 ELSE CountCmds(p, "isPatched") - 1
InRollback(p) == pc[p] \in {"rb_GetLatestRevision", "rb_DeleteConfigMap", "rb_RolloutUndo",
                            "rb_isPatched", "rb_UpdateChangeCause"}

\* C17: a rollback that starts at latest revision r issues at most r undos, r
\* snapshot deletes and r state re-checks, no undo for the same revision
\* twice, and a Rollback has issued at most 3r + 2 commands when it returns;
\* while it runs it can always take a step, so it returns
C17_RollbackBounded ==
  \A p \in Procs :
    /\ CountCmds(p, "RolloutUndo") <= Latest(entry[p][1])
    /\ RollbackDeletes(p) <= Latest(entry[p][1])
    /\ ReChecks(p) <= Latest(entry[p][1])
    /\ CountCmds(p, "UpdateChangeCause") <= 1
    /\ LET undos == Undos(p) IN
         \A k \in 2 .. Len(undos) : undos[k].arg < undos[k - 1].arg
    /\ op[p] = "Rollback" => Len(cmds[p]) <= 3 * Latest(entry[p][1]) + 2
    /\ InRollback(p) =>
         \/ ENABLED rollback_GetLatestRevision(p)
         \/ ENABLED rollback_DeleteConfigMap(p)
         \/ ENABLED rollback_RolloutUndo(p)
         \/ ENABLED rollback_isPatched(p)
         \/ ENABLED rollback_UpdateChangeCause(p)

C17_Witness ==
  \E p \in Procs :
    /\ Returned(p, "Rollback", "errCouldntRollback")
    /\ Latest(entry[p][1]) = 2
    /\ CountCmds(p, "RolloutUndo") = 2
    /\ RollbackDeletes(p) = 2
    /\ ReChecks(p) = 2
    /\ Len(cmds[p]) = 7

LastUndo(p) == Undos(p)[Len(Undos(p))]

\* C18: a Rollback that returned nil has written the change-cause
\* "rollback to i" as its last command, i being the revision of its last
\* undo; an invocation that returns the error of an undo or of the
\* change-cause update has that command as its last one, and a failed
\* change-cause update leaves the change-cause as it was
C18_SuccessAfterChangeCause ==
  \A p \in Procs :
    /\ Returned(p, "Rollback", "nil") =>
         /\ Len(Undos(p)) > 0
         /\ cmds[p][Len(cmds[p])] = [cmd |-> "UpdateChangeCause", arg |-> LastUndo(p).arg]
         /\ changeCause = <<"rollback to", LastUndo(p).arg>>
    /\ (pc[p] = "done" /\ result[p] = "errRolloutUndo") => LastCmd(p) = "RolloutUndo"
    /\ (pc[p] = "done" /\ result[p] = "errUpdateChangeCause") =>
         /\ LastCmd(p) = "UpdateChangeCause"
         /\ changeCause = entry[p][3]

C18_Witness ==
  \E p \in Procs :
    /\ Returned(p, "Rollback", "nil")
    /\ Len(Undos(p)) = 2
    /\ LastUndo(p).arg = 0
    /\ changeCause = <<"rollback to", 0>>
    /\ entry[p][3] # changeCause

\* no delete of this invocation failed while the snapshot existed: the
\* snapshot was absent at entry, or the first delete removed it
DeletesSucceed(p) ==
  \/ SnapshotName \notin DOMAIN entry[p][2]
  \/ (Len(cmds[p]) >= 2 /\ cmds[p][2] = [cmd |-> "DeleteConfigMap", arg |-> 1])

\* C19: every undo directly follows a snapshot delete and every state
\* re-check directly follows an undo; in a Rollback whose deletes succeed the
\* snapshot is absent once an undo has been issued, and after it returned nil
C19_DeleteUndoCheck ==
  \A p \in Procs :
    /\ \A k \in 2 .. Len(cmds[p]) :
         /\ cmds[p][k].cmd = "RolloutUndo" =>
              cmds[p][k - 1].cmd = "DeleteConfigMap" /\ ~PatchDeleteAt(p, k - 1)
         /\ cmds[p][k].cmd = "isPatched" => cmds[p][k - 1].cmd = "RolloutUndo"
    /\ (op[p] = "Rollback" /\ DeletesSucceed(p) /\ (Issued(p, "RolloutUndo") \/ result[p] = "nil")) =>
         SnapshotName \notin DOMAIN configmaps

C19_Witness ==
  \E p \in Procs :
    /\ Returned(p, "Rollback", "nil")
    /\ SnapshotName \in DOMAIN entry[p][2]
    /\ cmds[p][2] = [cmd |-> "DeleteConfigMap", arg |-> 1]
    /\ Len(Undos(p)) = 2
    /\ SnapshotName \notin DOMAIN configmaps

\* the state check at the entry of the invocation read the workload
\* successfully: what it returned is what the workload carried
TruthfulEntry(p) ==
  Len(cmds[p]) > 0 /\ cmds[p][1] = [cmd |-> "isPatched", arg |-> B2N(hasMarker(EntryLive(p)))]

\* C11: when process 1 was killed in the middle of a Patch or of a Rollback
\* and the Rollback of process 2, started afterwards, has returned nil or
\* "not patched" (the state checks at both entries having read the workload),
\* the workload is unpatched and no snapshot is left
C11_CrashRecovery ==
  (/\ pc[1] = "killed" /\ TruthfulEntry(1)
   /\ pc[2] = "done" /\ op[2] = "Rollback" /\ result[2] \in {"nil", "errNotPatched"}
   /\ TruthfulEntry(2)) =>
     /\ ~hasMarker(Live)
     /\ SnapshotName \notin DOMAIN configmaps

ExternalFailures == {"errCreateConfigMap", "errWaitForRollout", "errBuild", "errPush", "errPatchDeployment"}
\* the second call was given what the first call was given (an argument the
\* first call did not get to read is "-")
SameArguments(p, q) ==
  \A f \in DOMAIN NoArgs : args[p][f] = NoArgs[f] \/ args[p][f] = args[q][f]

\* the state check that ended the rollback of run p by finding no marker
UnpatchedReCheck(p) ==
  \E k \in 2 .. Len(cmds[p]) : cmds[p][k] = [cmd |-> "isPatched", arg |-> 0]

\* the state checks of run 2 read the workload: the check at entry returned
\* what the workload carried, and a rollback that ended on "not patched"
\* left no marker on the revision below the patch (a failing command other
\* than a state check or a delete ends Patch with an error)
SecondRunToolsSucceed ==
  /\ TruthfulEntry(2)
  /\ UnpatchedReCheck(2) => ~hasMarker(hist[Latest(hist) - 1])

\* C13: when the Patch of run 1 returned the error of an external tool and
\* the Patch of run 2, started afterwards with the same arguments and with
\* every external tool succeeding, returned nil, then the workload carries
\* the marker, the snapshot is the only configmap, and the snapshot holds
\* the workload without the patch
C13_RetryEqualsSinglePatch ==
  (/\ pc[1] = "done" /\ op[1] = "Patch" /\ result[1] \in ExternalFailures
   /\ Returned(2, "Patch", "nil") /\ SameArguments(1, 2)
   /\ SecondRunToolsSucceed) =>
     /\ hasMarker(Live)
     /\ DOMAIN configmaps = {SnapshotName}
     /\ ~hasMarker(configmaps[SnapshotName])
     /\ configmaps[SnapshotName].image = <<appImage>>

\* C20: two Patch invocations that both started on the workload without the
\* marker, ran at the same time and both returned nil leave the marker with
\* its snapshot, and the patch applied last was not applied to a revision
\* that already carried the marker (neither run rolls back, so the last
\* patch was applied to the revision below the latest)
C20_ConcurrentPatches ==
  (\A p \in Processes : Returned(p, "Patch", "nil") /\ ~hasMarker(EntryLive(p))) =>
     /\ hasMarker(Live) => SnapshotName \in DOMAIN configmaps
     /\ ~hasMarker(hist[Latest(hist) - 1])
====
